---- MODULE Spec2Model ----
(***************************************************************************)
(* Model of the domi-nano-banana MCP server: the three tools of server.py  *)
(* (text_to_image, image_edit, validate_api_token), the client             *)
(* DomiNanoBananaAPI of tools.py with its two submit methods, and the two  *)
(* status pollers _poll_generation_status / _poll_edit_status.             *)
(*                                                                         *)
(* One tool invocation runs at a time.  An invocation is cut at its        *)
(* blocking points: the submission POST, every status POST and every       *)
(* time.sleep(3).  The upstream API is the environment: each reply is      *)
(* drawn from SubmitReplies / StatusReplies.                               *)
(* RaceSpec is the one exception: it runs several invocations through     *)
(* get_api_client at the same time, and nothing else of them.  PairSpec    *)
(* runs the two pollers side by side on the same replies.                  *)
(***************************************************************************)
EXTENDS Integers, Sequences, FiniteSets, TLC

VARIABLES
    env,        \* os.environ["DOMI_API_TOKEN"]; NoToken when unset
    api_client, \* server.py global _api_client (NoClient until first built)
    pc,         \* position of the running invocation
    tool,       \* the tool being served ("none" when idle)
    arg_token,  \* the invocation's api_token argument (NoToken if not given)
    client,     \* the DomiNanoBananaAPI instance serving the invocation
    net,        \* the HTTP request currently outstanding (NoRequest if none)
    task_id,    \* the poller's task_id argument
    attempt,    \* the poller's loop variable `attempt`
    resp,       \* the reply being handled by the current step (NoReply if none)
    result,     \* the value the tool returns (NoResult while running)
    submits,    \* history: submission requests sent by this invocation
    requests,   \* history: status requests sent by this invocation
    sleeps,     \* history: time.sleep(3) calls made by this invocation
    sawError,   \* history: some poll attempt of this invocation raised
    args,       \* the arguments of the invocation, until its submission returns
    race,       \* callers inside get_api_client at the same time (RaceSpec)
    pair        \* the two pollers run side by side on one task (PairSpec)

vars == <<env, api_client, pc, tool, arg_token, client, net, task_id, attempt, resp,
          result, submits, requests, sleeps, sawError, args, race, pair>>

-----------------------------------------------------------------------------
(* Values *)

Absent == "absent"      \* a key that is not in a JSON object / None
NA == "-"               \* a field that does not exist for this kind of reply
NoToken == ""           \* a falsy token: None or the empty string
NoTask == "no-task"
NoClient == [none |-> TRUE]
NoRequest == [url |-> "none"]
NoResult == [pending |-> TRUE]
NoArgs == [none |-> TRUE]
NoRace == [none |-> TRUE]
NoPair == [none |-> TRUE]

\* tools.py:28-30, 300, 405
base_url == "https://duomiapi.com"
text_to_image_url == base_url \o "/api/gemini/nano-banana"
image_edit_url == base_url \o "/api/gemini/nano-banana-edit"
status_url == base_url \o "/api/gemini/nano-banana/status"

\* mutant of max_attempts: the loop runs once more
max_attempts_one_more == 30 + 1

\* default of the pollers' max_attempts parameter (never overridden by a caller)
max_attempts == 30

\* tools.py:92, server.py:78
valid_sizes == {"1x1", "3x4", "4x3", "9x16", "16x9"}

-----------------------------------------------------------------------------
(* Inputs of the tools *)

Tokens == {NoToken, "tokA"}
EnvValues == {NoToken, "envB"}
Prompts == {"", "  ", "cat", " cat "}
Sizes == {"1x1", "16x9", "2x2"}
Seeds == {-1, 7}
Images == {"", " ", "http://h/a.png", "aGk=", "file:///a.png", "not base64!"}

\* str.strip() on the strings above
strip(s) ==
    CASE s = "  " -> ""
      [] s = " " -> ""
      [] s = " cat " -> "cat"
      [] OTHER -> s

\* urllib.parse.urlparse(url): the scheme and netloc of the strings above
urlparse(s) ==
    CASE s = "http://h/a.png" -> [scheme |-> "http", netloc |-> "h"]
      [] s = "file:///a.png" -> [scheme |-> "file", netloc |-> ""]
      [] OTHER -> [scheme |-> "", netloc |-> ""]

\* base64.b64decode(data, validate=True) succeeds on the strings above
b64decode_ok(s) == s \in {"", "aGk="}

\* mutant of validate_image_url: a scheme is enough, the host is not looked at
validate_image_url_scheme_only(s) ==
    LET parsed == urlparse(s) IN parsed.scheme # ""

\* DomiNanoBananaAPI._validate_image_url
validate_image_url(s) ==
    LET parsed == urlparse(s) IN parsed.scheme # "" /\ parsed.netloc # ""

\* DomiNanoBananaAPI._is_base64
is_base64(s) ==
    IF s = "" \/ strip(s) = "" THEN FALSE ELSE b64decode_ok(s)

-----------------------------------------------------------------------------
(* Replies of the upstream API *)

\* how many distinct task ids and image urls the upstream API hands out
MaxTaskIds == 2
MaxImageUrls == 2

TaskIds == {"T" \o ToString(i) : i \in 1..MaxTaskIds}
ImageUrls == {"http://img/" \o ToString(i) : i \in 1..MaxImageUrls}

BlankReply ==
    [of |-> NA, exc |-> NA, http |-> 0, body |-> NA, code |-> 0, data |-> NA,
     task_id |-> NA, state |-> NA, status |-> NA, images |-> NA, url |-> NA,
     msg |-> NA, action |-> NA]

NoReply == BlankReply

\* requests.post raised instead of returning a response
TransportFailures == {"Timeout", "ConnectionError"}

\* the shapes a reply can have before its payload is looked at
EnvelopeReplies(o) ==
    {[BlankReply EXCEPT !.of = o, !.exc = e] : e \in TransportFailures}
    \cup {[BlankReply EXCEPT !.of = o, !.http = 500]}
    \cup {[BlankReply EXCEPT !.of = o, !.http = 200, !.body = b] :
            b \in {"text", "array"}}
    \cup {[BlankReply EXCEPT !.of = o, !.http = 200, !.body = "object",
                             !.code = 500, !.data = d] :
            d \in {Absent, "null", "object"}}
    \cup {[BlankReply EXCEPT !.of = o, !.http = 200, !.body = "object",
                             !.code = 200, !.data = d] :
            d \in {Absent, "null"}}

SubmitReplies ==
    EnvelopeReplies("submit")
    \cup {[BlankReply EXCEPT !.of = "submit", !.http = 200, !.body = "object",
                             !.code = 200, !.data = "object", !.task_id = t] :
            t \in TaskIds \cup {Absent}}

States == {Absent, "succeeded", "failed", "pending", "processing", "queued",
           "running", "unknown"}
StatusCodes == {Absent, "0", "1", "2", "3", "4", "9"}

\* data.data.images: key "data" missing, key "images" missing, images null,
\* images [], or a list whose first element has the given url
ImageLists == {"nodata", "noimages", "null", "empty", "list"}
FirstUrls == {Absent, ""} \cup ImageUrls

StatusObject(st, sc, im, u, m, a) ==
    [BlankReply EXCEPT !.of = "status", !.http = 200, !.body = "object",
                       !.code = 200, !.data = "object", !.state = st,
                       !.status = sc, !.images = im, !.url = u, !.msg = m,
                       !.action = a]

\* The images are varied on the replies that say "succeeded"/"3" and the msg
\* on those that say "failed"/"4": no other branch of the pollers reads them.
StatusObjects(st, sc) ==
    LET Msgs == IF st = "failed" \/ sc = "4" THEN {Absent, "boom"} ELSE {Absent}
    IN  IF st = "succeeded" \/ sc = "3"
        THEN {StatusObject(st, sc, im, NA, m, Absent) :
                im \in ImageLists \ {"list"}, m \in Msgs}
             \cup {StatusObject(st, sc, "list", u, m, Absent) :
                     u \in FirstUrls, m \in Msgs}
             \cup {StatusObject(st, sc, "list", u, m, "inpaint") :
                     u \in ImageUrls, m \in Msgs}
        ELSE {StatusObject(st, sc, "nodata", NA, m, Absent) : m \in Msgs}

StatusReplies ==
    EnvelopeReplies("status")
    \cup UNION {StatusObjects(st, sc) : st \in States, sc \in StatusCodes}

-----------------------------------------------------------------------------
(* The client: DomiNanoBananaAPI *)

\* mutant of Or: the second operand wins when it is truthy
Or_second_first(a, b) == IF b # NoToken THEN b ELSE a

\* a or b on tokens: the first truthy one
Or(a, b) == IF a # NoToken THEN a ELSE b

\* DomiNanoBananaAPI.__init__(api_token): the token is fixed here, together
\* with the Authorization header built from it
DomiNanoBananaAPI(api_token) ==
    LET t == Or(api_token, env)
    IN  [api_token |-> t, headers |-> [Authorization |-> <<"Bearer", t>>]]

Failure(code, msg) == [success |-> FALSE, error |-> msg, error_code |-> code]

MISSING_API_TOKEN ==
    Failure("MISSING_API_TOKEN",
            "API token is required. Set DOMI_API_TOKEN environment variable or pass api_token parameter.")

Post(url, c, payload, timeout) ==
    [url |-> url, headers |-> c.headers, json |-> payload, timeout |-> timeout]

\* mutant of text_to_image_request: the token check is left out
text_to_image_request_no_token_check(c, prompt, size, seed) ==
    IF prompt = "" \/ strip(prompt) = ""
    THEN [send |-> FALSE,
          result |-> Failure("INVALID_PROMPT", "Prompt cannot be empty")]
    ELSE IF size \notin valid_sizes
    THEN [send |-> FALSE, result |-> Failure("INVALID_SIZE", "Invalid size")]
    ELSE [send |-> TRUE,
          request |->
            Post(text_to_image_url, c,
                 IF seed # -1
                 THEN [prompt |-> strip(prompt), size |-> size, seed |-> seed]
                 ELSE [prompt |-> strip(prompt), size |-> size],
                 60)]

\* mutant of text_to_image_request: the seed is always put in the payload
text_to_image_request_always_seed(c, prompt, size, seed) ==
    IF c.api_token = NoToken
    THEN [send |-> FALSE, result |-> MISSING_API_TOKEN]
    ELSE IF prompt = "" \/ strip(prompt) = ""
    THEN [send |-> FALSE,
          result |-> Failure("INVALID_PROMPT", "Prompt cannot be empty")]
    ELSE IF size \notin valid_sizes
    THEN [send |-> FALSE, result |-> Failure("INVALID_SIZE", "Invalid size")]
    ELSE [send |-> TRUE,
          request |->
            Post(text_to_image_url, c,
                 [prompt |-> strip(prompt), size |-> size, seed |-> seed],
                 60)]

\* DomiNanoBananaAPI.text_to_image up to requests.post: a result when the
\* method returns before sending, else the request it sends
text_to_image_request(c, prompt, size, seed) ==
    IF c.api_token = NoToken
    THEN [send |-> FALSE, result |-> MISSING_API_TOKEN]
    ELSE IF prompt = "" \/ strip(prompt) = ""
    THEN [send |-> FALSE,
          result |-> Failure("INVALID_PROMPT", "Prompt cannot be empty")]
    ELSE IF size \notin valid_sizes
    THEN [send |-> FALSE, result |-> Failure("INVALID_SIZE", "Invalid size")]
    ELSE [send |-> TRUE,
          request |->
            Post(text_to_image_url, c,
                 IF seed # -1
                 THEN [prompt |-> strip(prompt), size |-> size, seed |-> seed]
                 ELSE [prompt |-> strip(prompt), size |-> size],
                 60)]

\* DomiNanoBananaAPI.image_edit up to requests.post
image_edit_request(c, image, prompt) ==
    IF c.api_token = NoToken
    THEN [send |-> FALSE, result |-> MISSING_API_TOKEN]
    ELSE IF image = "" \/ strip(image) = ""
    THEN [send |-> FALSE,
          result |-> Failure("INVALID_IMAGE", "Image cannot be empty")]
    ELSE IF prompt = "" \/ strip(prompt) = ""
    THEN [send |-> FALSE,
          result |-> Failure("INVALID_PROMPT", "Prompt cannot be empty")]
    ELSE IF ~validate_image_url(image) /\ ~is_base64(image)
    THEN [send |-> FALSE,
          result |-> Failure("INVALID_IMAGE_FORMAT",
                             "Invalid image format. Must be a valid URL or base64 encoded string")]
    ELSE [send |-> TRUE,
          request |->
            Post(image_edit_url, c,
                 [prompt |-> strip(prompt), image_urls |-> <<strip(image)>>],
                 120)]

\* mutant of submit_outcomes: data.task_id is read without a test for the key
submit_outcomes_no_task_id_test(kind, r) ==
    LET unexpected ==
            IF kind = "generation"
            THEN Failure("UNEXPECTED_RESPONSE", "Unexpected API response format")
            ELSE Failure("UNEXPECTED_EDIT_RESPONSE", "Unexpected edit API response")
        request_error == Failure("REQUEST_ERROR", "Request failed")
        unknown_error == Failure("UNKNOWN_ERROR", "Unexpected error")
        Return(x) == [poll |-> FALSE, result |-> x]
    IN  IF r.exc = "Timeout" THEN {Return(Failure("TIMEOUT", "Request timeout"))}
        ELSE IF r.exc = "ConnectionError" THEN {Return(request_error)}
        ELSE IF r.http # 200
        THEN {Return(Failure("API_ERROR", "API request failed with status"))}
        ELSE IF r.body = "text" THEN {Return(request_error), Return(unknown_error)}
        ELSE IF r.body = "array" THEN {Return(unknown_error)}
        ELSE IF r.code # 200 \/ r.data = Absent THEN {Return(unexpected)}
        ELSE IF r.data = "null" THEN {Return(unknown_error)}
        ELSE {[poll |-> TRUE, task_id |-> r.task_id]}

\* The two submit methods after requests.post: what the reply r leads to.
\* kind is "generation" (text_to_image) or "edit" (image_edit).  The set holds
\* every outcome the handler can have; only an unparseable body has two, as
\* response.json() raises a RequestException subclass in requests >= 2.27 and
\* a plain ValueError before.
submit_outcomes(kind, r) ==
    LET unexpected ==
            IF kind = "generation"
            THEN Failure("UNEXPECTED_RESPONSE", "Unexpected API response format")
            ELSE Failure("UNEXPECTED_EDIT_RESPONSE", "Unexpected edit API response")
        request_error == Failure("REQUEST_ERROR", "Request failed")
        unknown_error == Failure("UNKNOWN_ERROR", "Unexpected error")
        Return(x) == [poll |-> FALSE, result |-> x]
    IN  IF r.exc = "Timeout" THEN {Return(Failure("TIMEOUT", "Request timeout"))}
        ELSE IF r.exc = "ConnectionError" THEN {Return(request_error)}
        ELSE IF r.http # 200
        THEN {Return(Failure("API_ERROR", "API request failed with status"))}
        ELSE IF r.body = "text" THEN {Return(request_error), Return(unknown_error)}
        ELSE IF r.body = "array" THEN {Return(unknown_error)}
        ELSE IF r.code # 200 \/ r.data = Absent THEN {Return(unexpected)}
        ELSE IF r.data = "null" THEN {Return(unknown_error)}
        ELSE IF r.task_id = Absent THEN {Return(unexpected)}
        ELSE {[poll |-> TRUE, task_id |-> r.task_id]}

-----------------------------------------------------------------------------
(* The pollers: _poll_generation_status and _poll_edit_status *)

\* dict.get(key, default)
Get(v, default) == IF v = Absent THEN default ELSE v

state_default == "unknown"
\* mutant of status_default: a missing status is read like a missing state
status_default_unknown == "unknown"
status_default == "0"
in_progress_codes == {"0", "1", "2"}
\* mutant of in_progress_states: "queued" is forgotten
in_progress_states_no_queued == {"pending", "processing", "running"}
in_progress_states == {"pending", "processing", "queued", "running"}

\* image_url = "" unless data.data.images is a non-empty list, then
\* images[0].get("url", "")
image_url_of(r) ==
    IF r.images = "list" THEN Get(r.url, "") ELSE ""

\* mutant of success_metadata: both pollers tag the result "nano-banana"
success_metadata_one_model(kind, tid, status, status_code, r) ==
    IF kind = "generation"
    THEN [task_id |-> tid, status |-> status, status_code |-> status_code,
          create_time |-> Absent, update_time |-> Absent,
          model |-> "nano-banana"]
    ELSE [task_id |-> tid, status |-> status, status_code |-> status_code,
          action |-> Get(r.action, "edit"), model |-> "nano-banana"]

success_metadata(kind, tid, status, status_code, r) ==
    IF kind = "generation"
    THEN [task_id |-> tid, status |-> status, status_code |-> status_code,
          create_time |-> Absent, update_time |-> Absent,
          model |-> "nano-banana"]
    ELSE [task_id |-> tid, status |-> status, status_code |-> status_code,
          action |-> Get(r.action, "edit"), model |-> "nano-banana-edit"]

Returns(x) == [act |-> "return", result |-> x]
Raises == [act |-> "raise", result |-> NoResult]
Continues == [act |-> "continue", result |-> NoResult]

\* mutant of success_branch: the image URL is not tested before it is returned
success_branch_no_url_check(kind, tid, status, status_code, r) ==
    IF r.images = "null" THEN Raises
    ELSE Returns([success |-> TRUE, image_url |-> image_url_of(r),
                  metadata |->
                    success_metadata(kind, tid, status, status_code, r)])

\* mutant of success_branch: the success result is returned without metadata
success_branch_no_metadata(kind, tid, status, status_code, r) ==
    IF r.images = "null" THEN Raises
    ELSE IF image_url_of(r) # ""
    THEN Returns([success |-> TRUE, image_url |-> image_url_of(r)])
    ELSE IF kind = "generation"
    THEN Returns(Failure("NO_IMAGE_IN_COMPLETED_TASK",
                         "No image URL in completed task"))
    ELSE Returns(Failure("NO_EDITED_IMAGE",
                         "No edited image URL in completed task"))

\* the branch taken on "succeeded"/"3"; len(images) raises when images is null
success_branch(kind, tid, status, status_code, r) ==
    IF r.images = "null" THEN Raises
    ELSE IF image_url_of(r) # ""
    THEN Returns([success |-> TRUE, image_url |-> image_url_of(r),
                  metadata |->
                    success_metadata(kind, tid, status, status_code, r)])
    ELSE IF kind = "generation"
    THEN Returns(Failure("NO_IMAGE_IN_COMPLETED_TASK",
                         "No image URL in completed task"))
    ELSE Returns(Failure("NO_EDITED_IMAGE",
                         "No edited image URL in completed task"))

\* mutant of failure_branch: the edit poller keeps the generation error code
failure_branch_one_code(kind, r) ==
    Returns(Failure("GENERATION_FAILED", Get(r.msg, "Image generation failed")))

\* the branch taken on "failed"/"4"
failure_branch(kind, r) ==
    IF kind = "generation"
    THEN Returns(Failure("GENERATION_FAILED",
                         Get(r.msg, "Image generation failed")))
    ELSE Returns(Failure("EDIT_FAILED", Get(r.msg, "Image editing failed")))

\* mutant of status_branch: the failure test comes before the success test
status_branch_failure_first(kind, tid, r) ==
    LET status == Get(r.state, state_default)
        status_code == Get(r.status, status_default)
    IN  IF status = "failed" \/ status_code = "4"
        THEN failure_branch(kind, r)
        ELSE IF status = "succeeded" \/ status_code = "3"
        THEN success_branch(kind, tid, status, status_code, r)
        ELSE IF status_code \in in_progress_codes \/ status \in in_progress_states
        THEN Continues
        ELSE Returns(Failure("UNKNOWN_STATUS", "Unknown task status"))

\* mutant of status_branch: the in-progress test comes before the success test
status_branch_continue_first(kind, tid, r) ==
    LET status == Get(r.state, state_default)
        status_code == Get(r.status, status_default)
    IN  IF status_code \in in_progress_codes \/ status \in in_progress_states
        THEN Continues
        ELSE IF status = "succeeded" \/ status_code = "3"
        THEN success_branch(kind, tid, status, status_code, r)
        ELSE IF status = "failed" \/ status_code = "4"
        THEN failure_branch(kind, r)
        ELSE Returns(Failure("UNKNOWN_STATUS", "Unknown task status"))

\* the if/elif chain on (state, status) of a reply whose data is an object
status_branch(kind, tid, r) ==
    LET status == Get(r.state, state_default)
        status_code == Get(r.status, status_default)
    IN  IF status = "succeeded" \/ status_code = "3"
        THEN success_branch(kind, tid, status, status_code, r)
        ELSE IF status = "failed" \/ status_code = "4"
        THEN failure_branch(kind, r)
        ELSE IF status_code \in in_progress_codes \/ status \in in_progress_states
        THEN Continues
        ELSE Returns(Failure("UNKNOWN_STATUS", "Unknown task status"))

\* the try body of one loop iteration, from requests.post on
try_body(kind, tid, r) ==
    IF r.exc # NA THEN Raises
    ELSE IF r.http # 200
    THEN Returns(Failure("STATUS_CHECK_ERROR", "Status check failed with status"))
    ELSE IF r.body # "object" THEN Raises
    ELSE IF r.code # 200 \/ r.data = Absent
    THEN Returns(Failure("INVALID_STATUS_RESPONSE", "Invalid status response"))
    ELSE IF r.data # "object" THEN Raises
    ELSE status_branch(kind, tid, r)

\* mutant of except_handler: the last attempt is retried like any other
except_handler_always_retry(att) == [act |-> "retry", result |-> NoResult]

\* except Exception: the last attempt returns, any other one sleeps
except_handler(att) ==
    IF att = max_attempts - 1
    THEN Returns(Failure("POLLING_ERROR", "Status polling failed"))
    ELSE [act |-> "retry", result |-> NoResult]

\* mutant of poll_iteration: an in-progress reply on the last attempt returns
\* TIMEOUT at once
poll_iteration_no_last_pause(kind, tid, r, att) ==
    LET o == try_body(kind, tid, r)
    IN  IF o.act = "raise" THEN except_handler(att)
        ELSE IF o.act = "continue" /\ att = max_attempts - 1
        THEN Returns(Failure("TIMEOUT", "Image generation timeout"))
        ELSE o

\* one loop iteration on reply r
poll_iteration(kind, tid, r, att) ==
    LET o == try_body(kind, tid, r)
    IN  IF o.act = "raise" THEN except_handler(att) ELSE o

\* mutant of poll_timeout: the exhausted loop reports the except branch's code
poll_timeout_wrong_code(kind) ==
    Failure("POLLING_ERROR", "Status polling failed")

\* the statement after the for loop
poll_timeout(kind) ==
    IF kind = "generation"
    THEN Failure("TIMEOUT", "Image generation timeout")
    ELSE Failure("TIMEOUT", "Image editing timeout")

-----------------------------------------------------------------------------
(* The tools of server.py *)

\* get_api_client(): the value of the global _api_client after the call
get_api_client ==
    IF api_client = NoClient THEN DomiNanoBananaAPI(NoToken) ELSE api_client

\* "if api_token: client = DomiNanoBananaAPI(api_token=api_token)
\*  else: client = get_api_client()"
select_client(api_token) ==
    IF api_token # NoToken THEN DomiNanoBananaAPI(api_token) ELSE get_api_client

\* mutant of api_client_after: the client of the call is kept as the default
api_client_after_keeps_any(api_token) == select_client(api_token)

\* the global _api_client after the tool has picked its client: only
\* get_api_client() assigns it
api_client_after(api_token) ==
    IF api_token # NoToken THEN api_client ELSE get_api_client

\* mutant of tool_text_to_image_check: the size is left to the client
tool_text_to_image_check_no_size(prompt, size) ==
    IF prompt = "" \/ strip(prompt) = ""
    THEN Failure("INVALID_PROMPT", "Prompt is required and cannot be empty")
    ELSE NoResult

\* the checks text_to_image (server.py) makes before it picks a client
tool_text_to_image_check(prompt, size) ==
    IF prompt = "" \/ strip(prompt) = ""
    THEN Failure("INVALID_PROMPT", "Prompt is required and cannot be empty")
    ELSE IF size \notin valid_sizes
    THEN Failure("INVALID_SIZE", "Invalid size")
    ELSE NoResult

\* the checks image_edit (server.py) makes before it picks a client
tool_image_edit_check(image, prompt) ==
    IF image = "" \/ strip(image) = ""
    THEN Failure("INVALID_IMAGE", "Image is required and cannot be empty")
    ELSE IF prompt = "" \/ strip(prompt) = ""
    THEN Failure("INVALID_PROMPT", "Prompt is required and cannot be empty")
    ELSE NoResult

\* what the tool returns for the client method's result r (json.dumps of it;
\* validate_api_token wraps it first)
tool_return(t, r) ==
    IF t = "validate_api_token"
    THEN IF r.success \/ r.error_code \notin {"INVALID_PROMPT", "INVALID_SIZE"}
         THEN [valid |-> TRUE, message |-> "API token is valid",
               test_result |-> r]
         ELSE [valid |-> FALSE, message |-> "API token appears to be invalid",
               error |-> r.error]
    ELSE r

kind_of(t) == IF t = "image_edit" THEN "edit" ELSE "generation"

-----------------------------------------------------------------------------
(* Actions *)

Init ==
    /\ env \in EnvValues
    /\ api_client = NoClient
    /\ pc = "idle"
    /\ tool = "none"
    /\ arg_token = NoToken
    /\ client = NoClient
    /\ net = NoRequest
    /\ task_id = NoTask
    /\ attempt = 0
    /\ resp = NoReply
    /\ result = NoResult
    /\ submits = 0
    /\ requests = 0
    /\ sleeps = 0
    /\ sawError = FALSE
    /\ args = NoArgs
    /\ race = NoRace
    /\ pair = NoPair

\* the process environment is changed between two invocations
\* (DOMI_API_TOKEN is read in DomiNanoBananaAPI.__init__ only)
SetEnv ==
    /\ pc = "idle"
    /\ \E v \in EnvValues : v # env /\ env' = v
    /\ UNCHANGED <<api_client, pc, tool, arg_token, client, net, task_id,
                   attempt, resp, result, submits, requests, sleeps, sawError,
                   args>>

\* the invocation returns before any request is sent
ReturnEarly(t, tok, c, r) ==
    /\ pc' = "done"
    /\ tool' = t
    /\ arg_token' = tok
    /\ client' = c
    /\ result' = tool_return(t, r)
    /\ UNCHANGED <<env, net, task_id, attempt, resp, submits, requests,
                   sleeps, sawError>>

\* the invocation sends its submission request q
SendSubmission(t, tok, c, q) ==
    /\ pc' = "submit"
    /\ tool' = t
    /\ arg_token' = tok
    /\ client' = c
    /\ net' = q
    /\ submits' = submits + 1
    /\ UNCHANGED <<env, task_id, attempt, resp, result, requests, sleeps,
                   sawError>>

\* the client method, entered with client c
CallTextToImage(t, tok, c, prompt, size, seed) ==
    LET q == text_to_image_request(c, prompt, size, seed)
    IN  IF q.send THEN SendSubmission(t, tok, c, q.request)
        ELSE ReturnEarly(t, tok, c, q.result)

CallImageEdit(t, tok, c, image, prompt) ==
    LET q == image_edit_request(c, image, prompt)
    IN  IF q.send THEN SendSubmission(t, tok, c, q.request)
        ELSE ReturnEarly(t, tok, c, q.result)

\* server.py text_to_image, up to the submission request
mcp_text_to_image ==
    /\ pc = "idle"
    /\ \E prompt \in Prompts, size \in Sizes, seed \in Seeds, tok \in Tokens :
         /\ args' = [prompt |-> prompt, size |-> size, seed |-> seed,
                     image |-> NA]
         /\ LET bad == tool_text_to_image_check(prompt, size)
            IN  IF bad # NoResult
             THEN /\ ReturnEarly("text_to_image", tok, NoClient, bad)
                  /\ UNCHANGED api_client
             ELSE /\ api_client' = api_client_after(tok)
                  /\ CallTextToImage("text_to_image", tok, select_client(tok),
                                     strip(prompt), size, seed)

\* server.py image_edit, up to the submission request
mcp_image_edit ==
    /\ pc = "idle"
    /\ \E image \in Images, prompt \in Prompts, tok \in Tokens :
         /\ args' = [prompt |-> prompt, size |-> NA, seed |-> -1,
                     image |-> image]
         /\ LET bad == tool_image_edit_check(image, prompt)
            IN  IF bad # NoResult
             THEN /\ ReturnEarly("image_edit", tok, NoClient, bad)
                  /\ UNCHANGED api_client
             ELSE /\ api_client' = api_client_after(tok)
                  /\ CallImageEdit("image_edit", tok, select_client(tok),
                                   strip(image), strip(prompt))

\* server.py validate_api_token, up to the submission request
mcp_validate_api_token ==
    /\ pc = "idle"
    /\ \E tok \in Tokens :
         /\ UNCHANGED api_client
         /\ args' = [prompt |-> "test", size |-> "1x1", seed |-> 1,
                     image |-> NA]
         /\ CallTextToImage("validate_api_token", tok, DomiNanoBananaAPI(tok),
                            "test", "1x1", 1)

\* the submission request returns or raises
SubmitReceive ==
    /\ pc = "submit"
    /\ \E r \in SubmitReplies :
         \E o \in submit_outcomes(kind_of(tool), r) :
            /\ resp' = r
            /\ net' = NoRequest
            /\ IF o.poll
               THEN /\ pc' = "poll"
                    /\ task_id' = o.task_id
                    /\ attempt' = 0
                    /\ UNCHANGED result
               ELSE /\ pc' = "done"
                    /\ result' = tool_return(tool, o.result)
                    /\ UNCHANGED <<task_id, attempt>>
    /\ args' = NoArgs
    /\ UNCHANGED <<env, api_client, tool, arg_token, client, submits, requests,
                   sleeps, sawError>>

\* top of the loop body: payload = {"id": task_id}; requests.post(status_url, ...)
PollSend ==
    /\ pc = "poll"
    /\ attempt < max_attempts
    /\ net' = Post(status_url, client, [id |-> task_id], 30)
    /\ requests' = requests + 1
    /\ resp' = NoReply
    /\ pc' = "status"
    /\ UNCHANGED <<env, api_client, tool, arg_token, client, task_id, attempt,
                   result, submits, sleeps, sawError, args>>

\* the status request returns or raises and the iteration handles it
PollReceive ==
    /\ pc = "status"
    /\ \E r \in StatusReplies :
         LET o == poll_iteration(kind_of(tool), task_id, r, attempt)
         IN  /\ resp' = r
             /\ net' = NoRequest
             /\ sawError' = (sawError \/ try_body(kind_of(tool), task_id, r).act = "raise")
             /\ IF o.act = "return"
                THEN /\ pc' = "done"
                     /\ result' = tool_return(tool, o.result)
                ELSE /\ pc' = "sleep"
                     /\ UNCHANGED result
    /\ UNCHANGED <<env, api_client, tool, arg_token, client, task_id, attempt,
                   submits, requests, sleeps, args>>

\* time.sleep(3), then the next iteration or, the range exhausted, the
\* statement after the loop
PollSleep ==
    /\ pc = "sleep"
    /\ sleeps' = sleeps + 1
    /\ attempt' = attempt + 1
    /\ IF attempt + 1 < max_attempts
       THEN /\ pc' = "poll"
            /\ UNCHANGED result
       ELSE /\ pc' = "done"
            /\ result' = tool_return(tool, poll_timeout(kind_of(tool)))
    /\ UNCHANGED <<env, api_client, tool, arg_token, client, net, task_id,
                   resp, submits, requests, sawError, args>>

\* the tool has returned; the server is ready for the next invocation
Return ==
    /\ pc = "done"
    /\ pc' = "idle"
    /\ tool' = "none"
    /\ arg_token' = NoToken
    /\ client' = NoClient
    /\ net' = NoRequest
    /\ task_id' = NoTask
    /\ attempt' = 0
    /\ resp' = NoReply
    /\ result' = NoResult
    /\ submits' = 0
    /\ requests' = 0
    /\ sleeps' = 0
    /\ sawError' = FALSE
    /\ args' = NoArgs
    /\ UNCHANGED <<env, api_client>>

Next ==
    /\ \/ SetEnv
       \/ mcp_text_to_image
       \/ mcp_image_edit
       \/ mcp_validate_api_token
       \/ SubmitReceive
       \/ PollSend
       \/ PollReceive
       \/ PollSleep
       \/ Return
    /\ UNCHANGED <<race, pair>>

Spec == Init /\ [][Next]_vars

\* One polling run on its own: the state in which text_to_image / image_edit
\* enters its poller, the submission made with an explicit token having been
\* accepted with task id t.
PollInit ==
    /\ env \in EnvValues
    /\ api_client = NoClient
    /\ pc = "poll"
    /\ tool \in {"text_to_image", "image_edit"}
    /\ arg_token = "tokA"
    /\ client = DomiNanoBananaAPI("tokA")
    /\ net = NoRequest
    /\ task_id \in TaskIds
    /\ attempt = 0
    /\ resp = [BlankReply EXCEPT !.of = "submit", !.http = 200,
                                 !.body = "object", !.code = 200,
                                 !.data = "object", !.task_id = task_id]
    /\ result = NoResult
    /\ submits = 1
    /\ requests = 0
    /\ sleeps = 0
    /\ sawError = FALSE
    /\ args = NoArgs
    /\ race = NoRace
    /\ pair = NoPair

PollNext == (PollSend \/ PollReceive \/ PollSleep) /\ UNCHANGED <<race, pair>>

\* requests.post returns or raises within its timeout and time.sleep(3)
\* returns: the thread running the poller keeps taking its next step.
PollSpec == PollInit /\ [][PollNext]_vars /\ WF_vars(PollNext)

-----------------------------------------------------------------------------
(* Callers racing in get_api_client *)

\* Tool invocations without an api_token that are inside the server at the
\* same time, each on a thread of its own.  get_api_client is cut between its
\* read of the global, the constructor call, the store to the global and the
\* read of the return statement: nothing in server.py holds a lock there.
MaxCallers == 2
Callers == 1..MaxCallers

\* an instance built by get_api_client: the object and its identity
Instance(n) ==
    LET c == DomiNanoBananaAPI(NoToken)
    IN  [api_token |-> c.api_token, headers |-> c.headers, id |-> n]

RaceInit ==
    /\ env \in EnvValues
    /\ api_client = NoClient
    /\ pc = "idle"
    /\ tool = "none"
    /\ arg_token = NoToken
    /\ client = NoClient
    /\ net = NoRequest
    /\ task_id = NoTask
    /\ attempt = 0
    /\ resp = NoReply
    /\ result = NoResult
    /\ submits = 0
    /\ requests = 0
    /\ sleeps = 0
    /\ sawError = FALSE
    /\ args = NoArgs
    /\ pair = NoPair
    /\ race = [pc    |-> [c \in Callers |-> "idle"],
               tool  |-> [c \in Callers |-> NA],
               local |-> [c \in Callers |-> NoClient],
               used  |-> [c \in Callers |-> NoClient],
               built |-> 0]

RaceOthers ==
    UNCHANGED <<pc, tool, arg_token, client, net, task_id, attempt, resp,
                result, submits, requests, sleeps, sawError, args, pair>>

\* the environment variable changes while the server runs
RaceSetEnv ==
    /\ race # NoRace
    /\ \E v \in EnvValues : env' = v
    /\ UNCHANGED <<api_client, race>>
    /\ RaceOthers

\* server.py text_to_image / image_edit entered with no api_token and
\* arguments that pass the checks of the tool
RaceEnter(c) ==
    /\ race # NoRace
    /\ race.pc[c] = "idle"
    /\ \E t \in {"text_to_image", "image_edit"} :
         race' = [race EXCEPT !.pc[c] = "check", !.tool[c] = t]
    /\ UNCHANGED <<env, api_client>>
    /\ RaceOthers

\* if _api_client is None:
RaceCheck(c) ==
    /\ race # NoRace
    /\ race.pc[c] = "check"
    /\ race' = [race EXCEPT !.pc[c] = IF api_client = NoClient
                                      THEN "construct" ELSE "return"]
    /\ UNCHANGED <<env, api_client>>
    /\ RaceOthers

\* DomiNanoBananaAPI()
RaceConstruct(c) ==
    /\ race # NoRace
    /\ race.pc[c] = "construct"
    /\ race' = [race EXCEPT !.pc[c] = "assign",
                            !.local[c] = Instance(race.built + 1),
                            !.built = race.built + 1]
    /\ UNCHANGED <<env, api_client>>
    /\ RaceOthers

\* _api_client = ...
RaceAssign(c) ==
    /\ race # NoRace
    /\ race.pc[c] = "assign"
    /\ api_client' = race.local[c]
    /\ race' = [race EXCEPT !.pc[c] = "return"]
    /\ UNCHANGED env
    /\ RaceOthers

\* return _api_client: the caller goes on with the instance it reads now
RaceReturn(c) ==
    /\ race # NoRace
    /\ race.pc[c] = "return"
    /\ race' = [race EXCEPT !.pc[c] = "call", !.used[c] = api_client]
    /\ UNCHANGED <<env, api_client>>
    /\ RaceOthers

RaceNext ==
    \/ RaceSetEnv
    \/ \E c \in Callers : RaceEnter(c)
    \/ \E c \in Callers : RaceCheck(c)
    \/ \E c \in Callers : RaceConstruct(c)
    \/ \E c \in Callers : RaceAssign(c)
    \/ \E c \in Callers : RaceReturn(c)

RaceSpec == RaceInit /\ [][RaceNext]_vars

-----------------------------------------------------------------------------
(* The two pollers side by side *)

\* _poll_generation_status and _poll_edit_status are run on the same task id
\* and are handed the same outcome for their i-th status request.  Each
\* poller has its own position, loop counter, result and counts of requests
\* and pauses.
Pollers == {"generation", "edit"}

NewPoller ==
    [pc |-> "poll", attempt |-> 0, requests |-> 0, sleeps |-> 0,
     result |-> NoResult]

\* payload = {"id": task_id}; requests.post(status_url, ...)
poller_send(p) ==
    IF p.pc = "poll"
    THEN [p EXCEPT !.pc = "status", !.requests = @ + 1]
    ELSE p

\* the rest of the loop body on reply r
poller_receive(kind, tid, p, r) ==
    IF p.pc = "status"
    THEN LET o == poll_iteration(kind, tid, r, p.attempt)
         IN  IF o.act = "return"
             THEN [p EXCEPT !.pc = "done", !.result = o.result]
             ELSE [p EXCEPT !.pc = "sleep"]
    ELSE p

\* time.sleep(3), then the next iteration or the statement after the loop
poller_sleep(kind, p) ==
    IF p.pc = "sleep"
    THEN IF p.attempt + 1 < max_attempts
         THEN [p EXCEPT !.pc = "poll", !.attempt = @ + 1, !.sleeps = @ + 1]
         ELSE [p EXCEPT !.pc = "done", !.attempt = @ + 1, !.sleeps = @ + 1,
                        !.result = poll_timeout(kind)]
    ELSE p

PairInit ==
    /\ env \in EnvValues
    /\ api_client = NoClient
    /\ pc = "idle"
    /\ tool = "none"
    /\ arg_token = NoToken
    /\ client = NoClient
    /\ net = NoRequest
    /\ task_id = NoTask
    /\ attempt = 0
    /\ resp = NoReply
    /\ result = NoResult
    /\ submits = 0
    /\ requests = 0
    /\ sleeps = 0
    /\ sawError = FALSE
    /\ args = NoArgs
    /\ race = NoRace
    /\ \E tid \in TaskIds :
         pair = [task_id |-> tid, resp |-> NoReply,
                 poller |-> [k \in Pollers |-> NewPoller]]

PairOthers ==
    UNCHANGED <<env, api_client, pc, tool, arg_token, client, net, task_id,
                attempt, resp, result, submits, requests, sleeps, sawError,
                args, race>>

PairSend ==
    /\ pair # NoPair
    /\ \E k \in Pollers : pair.poller[k].pc = "poll"
    /\ pair' = [pair EXCEPT !.resp = NoReply,
                            !.poller = [k \in Pollers |-> poller_send(@[k])]]
    /\ PairOthers

PairReceive ==
    /\ pair # NoPair
    /\ \E k \in Pollers : pair.poller[k].pc = "status"
    /\ \E r \in StatusReplies :
         pair' = [pair EXCEPT
                    !.resp = r,
                    !.poller = [k \in Pollers |->
                                  poller_receive(k, pair.task_id, @[k], r)]]
    /\ PairOthers

PairSleep ==
    /\ pair # NoPair
    /\ \E k \in Pollers : pair.poller[k].pc = "sleep"
    /\ pair' = [pair EXCEPT
                   !.poller = [k \in Pollers |-> poller_sleep(k, @[k])]]
    /\ PairOthers

PairNext == PairSend \/ PairReceive \/ PairSleep

PairSpec == PairInit /\ [][PairNext]_vars

-----------------------------------------------------------------------------
(* Vocabulary of the claims *)

\* the attempt cap the claims speak of
AttemptCap == 30

\* the result of the client method (validate_api_token wraps it)
ClientResult ==
    IF "test_result" \in DOMAIN result THEN result.test_result ELSE result

Done == pc = "done"
Succeeded == Done /\ "image_url" \in DOMAIN ClientResult
ErrorCode ==
    IF Done /\ "error_code" \in DOMAIN ClientResult
    THEN ClientResult.error_code ELSE "none"

\* resp is the outcome of the latest status request, and it has been handled
Handled == resp.of = "status" /\ pc \in {"sleep", "done"}

TransportError == resp.exc \in TransportFailures
WellFormed == resp.http = 200 /\ resp.body = "object" /\ resp.code = 200
              /\ resp.data = "object"

\* state and statusCode as read from a well-formed reply
StateRead == IF resp.state = Absent THEN "unknown" ELSE resp.state
StatusCodeRead == IF resp.status = Absent THEN "0" ELSE resp.status

SuccessRule == StateRead = "succeeded" \/ StatusCodeRead = "3"
FailureRule == StateRead = "failed" \/ StatusCodeRead = "4"
ContinueRule ==
    \/ StatusCodeRead \in {"0", "1", "2"}
    \/ StateRead \in {"pending", "processing", "queued", "running"}

\* an in-progress response
InProgress == WellFormed /\ ~SuccessRule /\ ~FailureRule /\ ContinueRule

\* a success response with a non-empty first-image URL
HasImageUrl == resp.images = "list" /\ resp.url \notin {Absent, ""}

Generation == kind_of(tool) = "generation"

-----------------------------------------------------------------------------
(* C1 *)

\* C1: whatever the status endpoint answers, a polling run sends at most 30
\* status requests and ends by returning a result.
C1_PollingTerminates ==
    /\ [](requests <= AttemptCap)
    /\ (pc \in {"poll", "status", "sleep"}) ~> (Done /\ result # NoResult)

\* a run that used the whole cap on a mix of in-progress replies and errors
C1_Witness ==
    /\ Done /\ requests = AttemptCap /\ sawError
    /\ InProgress /\ ErrorCode = "TIMEOUT"

-----------------------------------------------------------------------------
(* C2 *)

\* C2: when every earlier reply was in-progress and the k-th reports success
\* with a non-empty first-image URL, the run returns Success with that URL
\* after exactly k status requests, k - 1 of them in-progress.
C2_SuccessAfterKPolls ==
    (Handled /\ ~sawError /\ WellFormed /\ SuccessRule /\ HasImageUrl) =>
        /\ Succeeded
        /\ ClientResult.image_url = resp.url
        /\ requests = attempt + 1
        /\ sleeps = attempt
        /\ requests <= AttemptCap

\* [pending, pending, succeeded]: Success after exactly 3 polls
C2_Witness ==
    /\ Succeeded /\ ~sawError /\ resp.state = "succeeded"
    /\ requests = 3 /\ sleeps = 2
    /\ ClientResult.image_url = "http://img/2"

-----------------------------------------------------------------------------
(* C3 *)

\* C3 as stated: when none of the 30 attempts of a run reaches a terminal
\* code/state (each one is in progress or fails in transport), the result is
\* TIMEOUT.
C3_Original ==
    (Done /\ resp.of = "status" /\ requests = AttemptCap
          /\ (InProgress \/ TransportError)) =>
        ErrorCode = "TIMEOUT"

\* C3 amended: when all 30 attempts are made and the 30th gets an in-progress
\* reply, the result is TIMEOUT; when the 30th fails in transport instead, the
\* result is POLLING_ERROR.
C3_TimeoutAfterCap ==
    (Done /\ resp.of = "status" /\ requests = AttemptCap) =>
        /\ InProgress => (ErrorCode = "TIMEOUT" /\ sleeps = AttemptCap)
        /\ TransportError => ErrorCode = "POLLING_ERROR"

\* thirty in-progress replies in a row
C3_Witness ==
    /\ Done /\ requests = AttemptCap /\ ~sawError
    /\ InProgress /\ ErrorCode = "TIMEOUT"

-----------------------------------------------------------------------------
(* C4 *)

\* a reply with statusCode "4" and state "succeeded" at once
Conflict == WellFormed /\ resp.status = "4" /\ resp.state = "succeeded"

NoImageCode ==
    IF Generation THEN "NO_IMAGE_IN_COMPLETED_TASK" ELSE "NO_EDITED_IMAGE"
FailedCode == IF Generation THEN "GENERATION_FAILED" ELSE "EDIT_FAILED"

\* C4 as stated: on statusCode "4" with state "succeeded" the failure branch
\* wins and the poller returns GENERATION_FAILED / EDIT_FAILED.
C4_Original ==
    (Handled /\ Conflict) => ErrorCode = FailedCode

\* C4 amended: on statusCode "4" with state "succeeded" the success branch is
\* evaluated first and wins: Success with the first image URL when it is
\* non-empty, NO_IMAGE_IN_COMPLETED_TASK / NO_EDITED_IMAGE when there is none,
\* and never GENERATION_FAILED / EDIT_FAILED.
C4_SuccessBranchWins ==
    (Handled /\ Conflict) =>
        /\ ErrorCode \notin {"GENERATION_FAILED", "EDIT_FAILED"}
        /\ HasImageUrl => (Succeeded /\ ClientResult.image_url = resp.url)
        /\ (~HasImageUrl /\ resp.images # "null") => ErrorCode = NoImageCode

\* a Success returned on the conflicting reply
C4_Witness ==
    /\ Succeeded /\ Handled /\ Conflict
    /\ ClientResult.metadata.status = "succeeded"
    /\ ClientResult.metadata.status_code = "4"

-----------------------------------------------------------------------------
(* C5 *)

\* the reply took the success path: Success, the no-image failure, or (images
\* null) the exception raised while the images are read
OnSuccessPath ==
    IF resp.images = "null"
    THEN pc = "sleep" \/ ErrorCode = "POLLING_ERROR"
    ELSE Succeeded \/ ErrorCode = NoImageCode

FailedMessage ==
    IF resp.msg # Absent THEN resp.msg
    ELSE IF Generation THEN "Image generation failed"
    ELSE "Image editing failed"

\* polling goes on: the pause, then the next attempt or, the cap reached, TIMEOUT
OnContinue ==
    pc = "sleep" \/ (ErrorCode = "TIMEOUT" /\ attempt = AttemptCap)

\* C5: a well-formed reply is decided by first match: success rule, then
\* failure rule (message from data.msg), then in-progress rule, else
\* UNKNOWN_STATUS.
C5_FirstMatchWins ==
    (Handled /\ WellFormed) =>
        IF SuccessRule THEN OnSuccessPath
        ELSE IF FailureRule
        THEN ErrorCode = FailedCode /\ ClientResult.error = FailedMessage
        ELSE IF ContinueRule THEN OnContinue
        ELSE ErrorCode = "UNKNOWN_STATUS"

\* the in-progress rule met by the state alone
C5_Witness ==
    /\ Handled /\ WellFormed /\ pc = "sleep"
    /\ resp.state = "queued" /\ resp.status = "9"

-----------------------------------------------------------------------------
(* C6 *)

\* images missing or empty, or a first image with no or an empty url
NoImageUrl ==
    \/ resp.images \in {"nodata", "noimages", "empty"}
    \/ resp.images = "list" /\ resp.url \in {Absent, ""}

\* C6: a reply that meets the success rule without a first-image url stops
\* the run at once with the no-image failure, and no Success carries an empty
\* image_url.
C6_NoImageIsFailure ==
    /\ (Handled /\ WellFormed /\ SuccessRule /\ NoImageUrl) =>
          /\ ErrorCode = NoImageCode
          /\ requests = attempt + 1
    /\ Succeeded => ClientResult.image_url \in ImageUrls

\* statusCode "3" with an empty images list, in an edit run
C6_Witness ==
    /\ Handled /\ WellFormed /\ resp.status = "3" /\ resp.images = "empty"
    /\ tool = "image_edit" /\ ErrorCode = "NO_EDITED_IMAGE"

-----------------------------------------------------------------------------
(* C7 *)

\* the token of the process-wide default client, as it is or as it would be built
DefaultToken == IF api_client = NoClient THEN env ELSE api_client.api_token

Operation == tool \in {"text_to_image", "image_edit"}

\* C7 as stated: with no explicit token and DOMI_API_TOKEN unset, both
\* operations return MISSING_API_TOKEN for any inputs, with no network call.
C7_Original ==
    (Done /\ Operation /\ arg_token = NoToken /\ env = NoToken) =>
        (ErrorCode = "MISSING_API_TOKEN" /\ submits = 0 /\ requests = 0)

\* C7 amended: with no explicit token and no token in the default client, both
\* operations make no network call and return a Failure: MISSING_API_TOKEN
\* when the inputs pass the tool's own checks, else the error of those checks.
C7_MissingToken ==
    (pc # "idle" /\ Operation /\ arg_token = NoToken /\ DefaultToken = NoToken) =>
        /\ Done /\ submits = 0 /\ requests = 0 /\ net = NoRequest
        /\ IF client # NoClient THEN ErrorCode = "MISSING_API_TOKEN"
           ELSE IF tool = "text_to_image"
           THEN ErrorCode \in {"INVALID_PROMPT", "INVALID_SIZE"}
           ELSE ErrorCode \in {"INVALID_IMAGE", "INVALID_PROMPT"}

\* an image-edit call served by a default client that holds no token
C7_Witness ==
    /\ Done /\ tool = "image_edit" /\ arg_token = NoToken
    /\ client # NoClient /\ client = api_client
    /\ ErrorCode = "MISSING_API_TOKEN" /\ submits = 0 /\ requests = 0

-----------------------------------------------------------------------------
(* C8 *)

\* C8: only transport errors are retried; any other error, an unparseable or
\* malformed HTTP 200 reply included, ends the run on the attempt it occurs.
C8_OnlyTransportRetried ==
    (Handled /\ ~TransportError /\ ~InProgress) => Done

-----------------------------------------------------------------------------
(* C9 *)

\* C9: a transport error before the last attempt is followed by a pause and a
\* retry, the failed attempt counted; on the last attempt it ends the run with
\* POLLING_ERROR.
C9_TransportErrorRetry ==
    /\ requests <= AttemptCap
    /\ (Handled /\ TransportError) =>
          /\ requests = attempt + 1
          /\ IF requests < AttemptCap
             THEN pc = "sleep" /\ sleeps = attempt
             ELSE ErrorCode = "POLLING_ERROR" /\ sleeps = AttemptCap - 1

\* a timeout on the thirtieth attempt
C9_Witness ==
    /\ Done /\ resp.of = "status" /\ resp.exc = "Timeout"
    /\ requests = AttemptCap /\ ErrorCode = "POLLING_ERROR"

-----------------------------------------------------------------------------
(* C10 *)

\* C10: an answered status request with HTTP status other than 200 ends the
\* run with STATUS_CHECK_ERROR, and an HTTP 200 JSON reply whose envelope is
\* not {code: 200, data: {...}} ends it with INVALID_STATUS_RESPONSE.
C10_BadReplyIsTerminal ==
    (Handled /\ ~TransportError) =>
        /\ resp.http # 200 => ErrorCode = "STATUS_CHECK_ERROR"
        /\ (resp.http = 200 /\ resp.body = "object" /\ ~WellFormed) =>
              ErrorCode = "INVALID_STATUS_RESPONSE"

-----------------------------------------------------------------------------
(* C11 *)

\* C11: when several invocations without an explicit token run at the same
\* time, get_api_client constructs the default client exactly once and every
\* one of them goes on with that same instance.
C11_ConstructedOnce ==
    race # NoRace =>
        /\ race.built <= 1
        /\ \A a, b \in Callers :
              (race.used[a] # NoClient /\ race.used[b] # NoClient) =>
                  race.used[a] = race.used[b]

-----------------------------------------------------------------------------
(* C12 *)

\* C12: whatever the upstream API does, a text_to_image or image_edit call
\* ends with a result that has a boolean success; with success false it has
\* error and error_code, with success true it has image_url and metadata; an
\* exception raised on the way is turned into such a result.
C12_ResultShape ==
    /\ (Done /\ Operation) =>
          /\ "success" \in DOMAIN result
          /\ result.success \in BOOLEAN
          /\ result.success => {"image_url", "metadata"} \subseteq DOMAIN result
          /\ ~result.success => {"error", "error_code"} \subseteq DOMAIN result
    /\ (Operation /\ Handled) =>
          poll_iteration(kind_of(tool), task_id, resp, attempt).act # "raise"
    /\ (Operation /\ pc = "submit") =>
          \A r \in SubmitReplies : submit_outcomes(kind_of(tool), r) # {}

\* a submission reply whose data is null raises inside the client, and the
\* call still ends with a failure result
C12_Witness ==
    /\ Done /\ Operation
    /\ resp.of = "submit" /\ resp.http = 200 /\ resp.data = "null"
    /\ result.success = FALSE /\ result.error_code = "UNKNOWN_ERROR"

-----------------------------------------------------------------------------
(* C13 *)

\* C13: validate_api_token makes one text-to-image call with the supplied
\* token and reports valid = false when the error_code of that call shows a
\* credential problem, such as MISSING_API_TOKEN for an empty token.
C13_CredentialProblemIsInvalid ==
    (Done /\ tool = "validate_api_token") =>
        /\ submits <= 1
        /\ ErrorCode = "MISSING_API_TOKEN" => result.valid = FALSE

-----------------------------------------------------------------------------
(* C14 *)

\* the sizes the claims enumerate
ValidSizeSet == {"1x1", "3x4", "4x3", "9x16", "16x9"}

NonBlank(s) == strip(s) # ""

\* the invocation has a client with a credential
CredentialPresent == client # NoClient /\ client.api_token # NoToken

\* the submission of the invocation is outstanding, and it is the only request
\* of the invocation so far
SubmissionOutstanding ==
    pc = "submit" /\ net # NoRequest /\ submits = 1 /\ requests = 0

\* C14: for a non-empty prompt, a size of the enumeration, any seed and a
\* credential, text_to_image sends exactly one submission request, and its
\* body has a seed field (holding the seed) exactly when the seed is not -1.
C14_SeedInBodyIffGiven ==
    /\ submits <= 1
    /\ (Generation /\ args # NoArgs /\ NonBlank(args.prompt)
           /\ args.size \in ValidSizeSet /\ CredentialPresent) =>
          /\ SubmissionOutstanding
          /\ net.url = text_to_image_url
          /\ ("seed" \in DOMAIN net.json) <=> (args.seed # -1)
          /\ args.seed # -1 => net.json.seed = args.seed

\* a text_to_image call with seed 7 waits for the answer to its submission
C14_Witness ==
    /\ tool = "text_to_image" /\ SubmissionOutstanding
    /\ args # NoArgs /\ args.seed = 7 /\ net.json.seed = 7

-----------------------------------------------------------------------------
(* C15 *)

\* C15: a text_to_image call whose size is outside the enumeration is
\* rejected with INVALID_SIZE (its prompt being non-empty), with or without a
\* credential, and no request of any kind is sent for it.
C15_InvalidSizeRejected ==
    (tool = "text_to_image" /\ args # NoArgs
       /\ args.size \notin ValidSizeSet) =>
        /\ Done
        /\ submits = 0 /\ requests = 0 /\ net = NoRequest
        /\ NonBlank(args.prompt) => ErrorCode = "INVALID_SIZE"

\* size 2x2 with a prompt and no credential anywhere
C15_Witness ==
    /\ Done /\ tool = "text_to_image" /\ args # NoArgs
    /\ args.size = "2x2" /\ args.prompt = "cat"
    /\ arg_token = NoToken /\ env = NoToken
    /\ ErrorCode = "INVALID_SIZE" /\ submits = 0

-----------------------------------------------------------------------------
(* C16 *)

\* an image reference that is neither an absolute URL with scheme and host
\* nor strictly valid base64
InvalidReference(s) ==
    /\ ~(urlparse(s).scheme # "" /\ urlparse(s).netloc # "")
    /\ ~b64decode_ok(s)

\* C16: an image_edit call whose image reference classifies as invalid sends
\* no request of any kind, and it ends with INVALID_IMAGE_FORMAT whenever the
\* checks before the classification pass (image and prompt non-empty, a
\* credential present).
C16_InvalidImageRejected ==
    (tool = "image_edit" /\ args # NoArgs /\ InvalidReference(args.image)) =>
        /\ Done
        /\ submits = 0 /\ requests = 0 /\ net = NoRequest
        /\ (NonBlank(args.image) /\ NonBlank(args.prompt)
              /\ CredentialPresent) => ErrorCode = "INVALID_IMAGE_FORMAT"

\* a file: URL without host is turned down
C16_Witness ==
    /\ Done /\ tool = "image_edit" /\ args # NoArgs
    /\ args.image = "file:///a.png" /\ NonBlank(args.prompt)
    /\ ErrorCode = "INVALID_IMAGE_FORMAT" /\ submits = 0

-----------------------------------------------------------------------------
(* C17 *)

\* the answer to the submission has the shape {code: 200, data: {task_id}}
AcceptedShape ==
    resp.code = 200 /\ resp.data = "object" /\ resp.task_id # Absent

\* C17: an HTTP 200 answer to the submission whose JSON object is not shaped
\* {code: 200, data: {task_id}} (wrong code, data missing, null or not an
\* object, task_id missing) ends the call with UNEXPECTED_RESPONSE for
\* text-to-image and UNEXPECTED_EDIT_RESPONSE for image-edit, and no status
\* request is sent.
C17_UnexpectedShape ==
    (Done /\ resp.of = "submit" /\ resp.http = 200 /\ resp.body = "object"
       /\ ~AcceptedShape) =>
        /\ requests = 0
        /\ ErrorCode = IF Generation THEN "UNEXPECTED_RESPONSE"
                                     ELSE "UNEXPECTED_EDIT_RESPONSE"

-----------------------------------------------------------------------------
(* C18 *)

\* what holds of the requests of an invocation in every state
SequentialState ==
    /\ submits <= 1
    /\ net # NoRequest => pc \in {"submit", "status"}
    /\ pc = "submit" =>
          /\ net.url \in {text_to_image_url, image_edit_url}
          /\ submits = 1 /\ requests = 0
    /\ pc = "status" => net.url = status_url
    /\ requests > 0 => (submits = 1 /\ task_id \in TaskIds)
    /\ Done => net = NoRequest
    /\ (Done /\ resp.of = "submit") => requests = 0

\* what holds of every step that sends a request
SequentialStep ==
    /\ submits' > submits =>
          (submits = 0 /\ requests = 0 /\ net = NoRequest /\ pc = "idle")
    /\ requests' > requests =>
          /\ requests' = requests + 1
          /\ net = NoRequest /\ ~Done
          /\ submits = 1 /\ task_id \in TaskIds
          /\ resp.of = "submit" => (resp.http = 200 /\ AcceptedShape)
          /\ submits' = submits
    /\ Done => (net' = NoRequest /\ submits' = 0 /\ requests' = 0)

\* C18: the requests of one invocation are strictly sequential: at most one
\* submission request, never sent again (a failed submission ends the call);
\* a status request only after the submission was accepted with a task_id;
\* never a request while another is outstanding; none after the call ended.
C18_Sequential == []SequentialState /\ [][SequentialStep]_vars

\* the third status request of a call is outstanding
C18_Witness ==
    /\ pc = "status" /\ net.url = status_url
    /\ submits = 1 /\ requests = 3

-----------------------------------------------------------------------------
(* C19 *)

\* C19: every status request carries {id: T}, T being the task_id that the
\* submission of the same call returned, and the metadata of a success
\* carries the same T, the state and the code read from the status response
\* that ended the call, and the model tag: "nano-banana" for text-to-image,
\* "nano-banana-edit" for image-edit together with the action of the status
\* payload ("edit" when it has none).
C19_TaskIdCarried ==
    /\ (pc = "poll" /\ resp.of = "submit") =>
          (AcceptedShape /\ task_id = resp.task_id)
    /\ pc = "status" => net.json = [id |-> task_id]
    /\ Succeeded =>
          LET m == ClientResult.metadata
          IN  /\ resp.of = "status"
              /\ m.task_id = task_id
              /\ m.status = StateRead
              /\ m.status_code = StatusCodeRead
              /\ IF Generation
                 THEN m.model = "nano-banana"
                 ELSE /\ m.model = "nano-banana-edit"
                      /\ m.action = IF resp.action = Absent THEN "edit"
                                                            ELSE resp.action

\* an edit that succeeded for the second task id, the payload naming no action
C19_Witness ==
    /\ Succeeded /\ tool = "image_edit"
    /\ task_id = "T2" /\ ClientResult.metadata.task_id = "T2"
    /\ resp.action = Absent /\ ClientResult.metadata.action = "edit"

-----------------------------------------------------------------------------
(* C20 *)

\* the token in the Authorization header of the outstanding request
SentToken == net.headers.Authorization[2]

\* C20: every request of a call that was given an explicit token carries
\* "Bearer" and that token, whatever DOMI_API_TOKEN holds; a request carries a
\* value of the environment only when the call was given no explicit token.
C20_ExplicitTokenFirst ==
    net # NoRequest =>
        /\ net.headers.Authorization[1] = "Bearer"
        /\ arg_token # NoToken => SentToken = arg_token
        /\ arg_token = NoToken => SentToken \in EnvValues \ {NoToken}
        /\ SentToken \in EnvValues => arg_token = NoToken

\* a status request sent with the explicit token while the environment holds
\* another one
C20_Witness ==
    /\ pc = "status" /\ net # NoRequest
    /\ arg_token = "tokA" /\ env = "envB"
    /\ SentToken = "tokA"

-----------------------------------------------------------------------------
(* C21 *)

\* the error code of the edit poller that corresponds to one of the
\* generation poller
RenamedCode(c) ==
    CASE c = "GENERATION_FAILED" -> "EDIT_FAILED"
      [] c = "NO_IMAGE_IN_COMPLETED_TASK" -> "NO_EDITED_IMAGE"
      [] OTHER -> c

\* results g of the generation poller and e of the edit poller correspond
Corresponds(g, e) ==
    /\ g # NoResult /\ e # NoResult
    /\ g.success = e.success
    /\ IF g.success
       THEN /\ g.image_url = e.image_url
            /\ g.metadata.task_id = e.metadata.task_id
            /\ g.metadata.status = e.metadata.status
            /\ g.metadata.status_code = e.metadata.status_code
       ELSE e.error_code = RenamedCode(g.error_code)

-----------------------------------------------------------------------------
(* C22 *)

RecognisedStates ==
    {"succeeded", "failed", "pending", "processing", "queued", "running"}
RecognisedCodes == {"0", "1", "2", "3", "4"}

\* C22: a well-formed status response without a status field never ends the
\* run with UNKNOWN_STATUS: unless its state is "succeeded" or "failed" the
\* poller pauses and goes on, also when the state is missing or not
\* recognised.  UNKNOWN_STATUS is returned only for a status field that is
\* present with a value outside "0".."4" together with a state outside the
\* recognised ones.
C22_MissingStatusContinues ==
    /\ (Handled /\ WellFormed /\ resp.status = Absent) =>
          /\ ErrorCode # "UNKNOWN_STATUS"
          /\ resp.state \notin {"succeeded", "failed"} =>
                \/ pc = "sleep" /\ sleeps = attempt
                \/ Done /\ ErrorCode = "TIMEOUT" /\ sleeps = AttemptCap
    /\ ErrorCode = "UNKNOWN_STATUS" =>
          /\ Handled /\ WellFormed
          /\ resp.status \notin RecognisedCodes \cup {Absent}
          /\ resp.state \notin RecognisedStates

\* neither status nor state in the response: the poller pauses
C22_Witness ==
    /\ Handled /\ WellFormed
    /\ resp.status = Absent /\ resp.state = Absent
    /\ pc = "sleep" /\ requests = 2

-----------------------------------------------------------------------------
(* C23 *)

\* C23: a polling run pauses once after every attempt that does not end it:
\* while it runs the pauses taken equal the attempts already left behind; a
\* run ended by an attempt (success, failure, bad reply, or a transport error
\* on the last allowed attempt, which gives POLLING_ERROR) has paused once
\* less than it has sent requests, so nothing follows the ending attempt; a
\* run ended with TIMEOUT had an in-progress reply on the last allowed
\* attempt and paused after it too.
C23_PausesCountAttempts ==
    /\ pc = "poll" => (sleeps = requests /\ sleeps = attempt)
    /\ pc \in {"status", "sleep"} => sleeps = requests - 1
    /\ (Done /\ resp.of = "status") =>
          IF ErrorCode = "TIMEOUT"
          THEN /\ InProgress
               /\ requests = AttemptCap /\ sleeps = AttemptCap
          ELSE sleeps = requests - 1
    /\ (Done /\ resp.of = "status" /\ TransportError
          /\ requests = AttemptCap) =>
          (ErrorCode = "POLLING_ERROR" /\ sleeps = AttemptCap - 1)

\* thirty in-progress replies: thirty pauses, then TIMEOUT
C23_Witness ==
    /\ Done /\ resp.of = "status" /\ InProgress
    /\ ErrorCode = "TIMEOUT"
    /\ requests = AttemptCap /\ sleeps = AttemptCap

-----------------------------------------------------------------------------
(* C24 *)

\* a step of a call that was given a non-empty explicit token: its first
\* step, or a later one
ExplicitTokenStep ==
    \/ pc = "idle" /\ pc' # "idle" /\ arg_token' # NoToken
    \/ pc # "idle" /\ arg_token # NoToken

\* C24: a text_to_image, image_edit or validate_api_token call with a
\* non-empty explicit token works with a client of its own, built with that
\* token, and no step of it changes the default client: an unset one stays
\* unset, a set one stays the same.
C24_DefaultClientUntouched ==
    /\ [][ExplicitTokenStep => api_client' = api_client]_vars
    /\ []((arg_token # NoToken /\ client # NoClient) =>
             client.api_token = arg_token)

\* a call with token tokA has succeeded and the default client is still unset
C24_Witness ==
    /\ Succeeded /\ arg_token = "tokA" /\ client.api_token = "tokA"
    /\ env = "envB" /\ api_client = NoClient

-----------------------------------------------------------------------------
(* C25 *)

\* C25: the token of the default client is the value DOMI_API_TOKEN had when
\* the client was first constructed, and it stays that value whatever
\* happens to the variable later: once set, the default client is never
\* replaced by one with another token, so calls without an explicit token
\* keep failing with MISSING_API_TOKEN if it was empty and keep using the
\* old value if it was not.
C25_TokenFixedAtFirstConstruction ==
    [][api_client # NoClient =>
          (api_client' # NoClient
             /\ api_client'.api_token = api_client.api_token)]_vars

====
